---- MODULE Spec2Model ----
(***************************************************************************)
(* A model of one RayProcess host (eventsourcing/system/ray.py) of some    *)
(* pipeline, together with the upstream hosts it follows.                  *)
(*                                                                         *)
(* The host has four worker threads: the DBWorker (db_jobs), the Puller    *)
(* (process_prompts), the EventProcessor (process_events) and the Promoter *)
(* (push_prompts); and the actor's own thread, which runs the remote calls *)
(* init(), prompt(), call(), get_notifications() and stop() one at a time. *)
(* Each upstream host is modelled by its notification log (ids 1..log[u],  *)
(* contiguous) and by the prompts waiting in its downstream_prompt_queue.  *)
(* Each downstream host is modelled by the prompt() calls it receives and  *)
(* by how it answers them.  RayRunner.start, which creates the hosts of    *)
(* every pipeline and wires them, is modelled by the runner variables.     *)
(*                                                                         *)
(* The process application and the record manager are not part of ray.py;  *)
(* the operators that stand for them (process_upstream_event's tracking    *)
(* insert, get_recorded_position, record_manager.get_notifications) follow *)
(* the record-store and process-application contracts of the specification.*)
(* RayDbJob (rayhelpers) is not part of ray.py either: a job has a result  *)
(* slot, an error slot and a done signal, as the specification describes.  *)
(***************************************************************************)
EXTENDS Integers, Sequences, FiniteSets, TLC

\* ------------------------------------------------------------------ bounds
\* The first upstream writes at most MaxNotif notifications, every other
\* upstream one fewer (MaxNotifOf).
MaxNotif == 2
\* At most MaxDup notifications are delivered a second time.
MaxDup == 1
\* The host may start with up to InitTracked notifications of each upstream
\* already processed by an earlier run (tracking records persist).
InitTracked == 1
\* At most MaxCalls remote call() / get_notifications() requests reach the
\* host.
MaxCalls == 2
\* The runner is configured with at most MaxPipelines pipeline ids,
\* 0 .. MaxPipelines - 1.
MaxPipelines == 2
\* A host that joins late finds at most MaxBacklog notifications of its first
\* upstream waiting (more than two full ranges of the Puller).
MaxBacklog == 21
\* One call of process_upstream_event produces at most MaxNew new events.
MaxNew == 2

\* At most MaxPublished prompts are published on the channels an operating
\* system process listens to.
MaxPublished == 2

\* --------------------------------------------------------------- constants
\* Python's None (an absent head, an absent dictionary entry).
Nil == -1
\* RANGE_LIMIT of process_prompts.
RANGE_LIMIT == 10
\* The upstream process names, and the order in which upstream_logs.keys()
\* yields them.
UpstreamOrder == <<"a", "c">>
Upstreams == {UpstreamOrder[i] : i \in 1..Len(UpstreamOrder)}
\* This host's process name, and the names of the downstream processes in the
\* order in which downstream_processes.items() yields them.
ProcessName == "b"
DownstreamOrder == <<"x", "y">>
Downstreams == {DownstreamOrder[i] : i \in 1..Len(DownstreamOrder)}
\* The threads that hand jobs to the DBWorker with do_db_job.  A thread waits
\* in do_db_job for its job, so it has at most one job at a time and the job
\* is named after it.
Callers == {"RPC", "EventProcessor", "Promoter"}
\* The None that stop() puts on db_jobs_queue, on upstream_event_queue and
\* on downstream_prompt_queue.
NoneJob == "None"
NoneEvent == <<>>
NonePrompt == <<>>
\* The prompts on downstream_prompt_queue: the RayPrompt the EventProcessor
\* builds, and the PromptToPull the application publishes (head: Nil when it
\* has none).
RayPrompt(name, pipeline, head) == <<"RayPrompt", name, pipeline, head>>
PromptToPull(name, pipeline, head) == <<"PromptToPull", name, pipeline, head>>
\* The operating system processes of the multiprocess runner, in the order
\* of self.os_processes: the process modelled here is ProcessName, which
\* follows the others.
OsProcessOrder == UpstreamOrder \o <<ProcessName>>
\* The items pubsub.get_message returns: a prompt published on a channel, the
\* KILL that close() publishes, and the confirmations of subscribe and
\* unsubscribe.
PromptMessage(channel) == <<"message", channel, "">>
KillMessage(channel) == <<"message", channel, "KILL">>
Confirmation(type, channel) == <<type, channel, "">>
\* A RayDbJob that does not exist, and one freshly constructed by do_db_job.
NoJob == [st |-> "none", error |-> FALSE]
NewJob == [st |-> "queued", error |-> FALSE]

MaxNotifOf(u) == IF u = UpstreamOrder[1] THEN MaxNotif ELSE MaxNotif - 1

VARIABLES
    \* upstream hosts
    log,                      \* log[u]: max notification id of upstream u
    upq,                      \* upq[u]: heads of the prompts queued at u's Promoter
    dropped,                  \* a prompt of an upstream was lost in transport
    \* this host
    is_inited,
    heads,                    \* heads[u]: Nil when u is not in the dict
    has_been_prompted,
    positions,                \* positions[u]: Nil when u is not in the dict
    pullerPc,                 \* "wait" | "snapshot" | "fetch" | "ray_get" |
                              \* "enqueue" | "done" | "dead"
    current_heads,            \* the Puller's snapshot of heads
    todo,                     \* upstreams the current pass has still to visit
    batch,                    \* fetched notifications still to enqueue
    upstream_event_queue,     \* FIFO of <<upstream_name, notification_id>>
    epPc,                     \* "idle" | "processing" | "get_max_notification_id" |
                              \* "done" | "dead"
    epItem,                   \* the item the EventProcessor popped
    ep_result,                \* outcome of the last process_upstream_event
    tracking,                 \* tracking[u]: notification ids, in commit order
    ownLog,                   \* max notification id of this host's own log
    downstream_prompt_queue,  \* FIFO of the prompts queued at the Promoter
    \* history
    enq,                      \* enq[u]: ids the Puller enqueued, in order
    popped,                   \* popped[u]: ids the EventProcessor popped, in order
    last_prompt,              \* <<sender, head, heads[sender] before>> of the last
                              \* prompt() observed (SpecPrompt), else <<>>
    dups,                     \* notifications delivered a second time
    \* this host: DBWorker, actor thread, Promoter, shutdown
    has_been_stopped,
    db_jobs_queue,            \* FIFO of callers' jobs (and NoneJob)
    db_job,                   \* db_job[c]: the RayDbJob of caller c:
                              \*   st "none" | "queued" | "running" | "done"
                              \*   error: the error slot is set
    dbPc,                     \* "get" | "execute" | "done"
    rpcPc,                    \* "idle" | "init" | "call" | "get_notifications":
                              \* the remote call the actor thread is in
    rpc_raises,               \* the function of the actor thread's job raises
    rpc_result,               \* how the last call / get_notifications that has
                              \* ended did: "none" | "returned" | "raised" |
                              \* "AssertionError"
    promoterPc,               \* "get" | "get_max_notification_id" | "ray_get" |
                              \* "blocked" | "done" | "dead"
    puller_result,            \* "none" | "causal" | "operational" | "TypeError": the error
                              \* that ended the Puller
    app_calls,                \* <<thread, method>>: calls made on the process
                              \* application so far
    calls,                    \* call() / get_notifications() requests so far
    \* this host: requests in flight, results of jobs, prompts sent
    requests,                 \* <<upstream, first, last>>: the get_notifications
                              \* request of the Puller that is in flight, else <<>>
    new_events,               \* result of the last process_upstream_event: the
                              \* __notifiable__ flag of each new event
    new_records,              \* and the notification id of each new record (Nil
                              \* when the record has no integer id)
    max_notification_id,      \* max_notification_id[c]: result of the last
                              \* get_max_notification_id of thread c
    prompt_response_ids,      \* prompt_response_ids[d]: the Promoter's prompt()
                              \* call to downstream d: "none" | "pending" |
                              \* "returned" | "raised"
    sent,                     \* sent[d]: heads of the prompts sent to downstream d
    \* the runner
    pipeline_ids,             \* RayRunner.pipeline_ids
    upstream_names,           \* system.upstream_names: name -> names it follows
    ray_processes,            \* keys <<name, pipeline_id>> of the hosts created
    wiring,                   \* wiring[key]: the upstream_logs and the
                              \* downstream_processes passed to init(), per host
    \* the multiprocess runner and one of its operating system processes
    os_process,               \* where OperatingSystemProcess.run is: "created" |
                              \* "loop_on_prompts" | "get_message" | "process_run" |
                              \* "terminated"
    pubsub,                   \* the items waiting in self.pubsub, FIFO:
                              \* <<type, channel, data>>
    pubsub_channels,          \* the channels self.pubsub is subscribed to
    prompt_handler,           \* broadcast_prompt is subscribed to the prompts
    process_closed,           \* self.process.close() has been called
    caught,                   \* run() has printed "Caught exception"
    os_processes,             \* where the Multiprocess runner is: "started" |
                              \* "join" | "is_alive" | "closed"
    to_kill,                  \* the processes close() has still to publish KILL for
    published,                \* prompts published so far
    \* history
    kill_received,            \* a KILL message has been read
    after_kill                \* what run() has done since: "process.run",
                              \* "get_message"

vars == <<log, upq, dropped, is_inited, heads, has_been_prompted, positions,
          pullerPc, current_heads, todo, batch, upstream_event_queue, epPc,
          epItem, ep_result, tracking, ownLog, downstream_prompt_queue,
          enq, popped, last_prompt, dups, has_been_stopped, db_jobs_queue,
          db_job, dbPc, rpcPc, rpc_raises, rpc_result, promoterPc,
          puller_result, app_calls, calls, requests, new_events,
          new_records, max_notification_id, prompt_response_ids, sent, pipeline_ids,
          upstream_names, ray_processes, wiring, os_process, pubsub,
          pubsub_channels, prompt_handler, process_closed, caught, os_processes,
          to_kill, published, kill_received, after_kill>>

upstreamVars == <<log, upq, dropped>>
promptVars == <<heads, has_been_prompted, last_prompt>>
pullerVars == <<pullerPc, current_heads, todo, batch>>
epVars == <<epPc, epItem, ep_result, tracking, ownLog, popped>>
dbVars == <<db_jobs_queue, db_job, dbPc>>
rpcVars == <<rpcPc, rpc_raises, rpc_result, calls>>
emitVars == <<new_events, new_records>>
deliveryVars == <<max_notification_id, prompt_response_ids, sent>>
runnerVars == <<pipeline_ids, upstream_names, ray_processes, wiring>>
osVars == <<os_process, pubsub, pubsub_channels, prompt_handler, process_closed,
            caught, os_processes, to_kill, published, kill_received, after_kill>>
\* What the upstream hosts and the prompts they send leave alone.
hostVars == <<has_been_stopped, dbVars, rpcVars, promoterPc, puller_result, app_calls>>

\* ----------------------------------------------------------------- helpers
Range(s) == {s[i] : i \in 1..Len(s)}

Max(S) == CHOOSE x \in S : \A y \in S : y <= x

\* The ids lo, lo+1, ..., hi as a sequence (empty when hi < lo).
IdsFromTo(lo, hi) == IF hi < lo THEN <<>> ELSE [i \in 1..(hi - lo + 1) |-> lo + i - 1]

IsStrictlyIncreasing(s) == \A i \in 1..Len(s) : \A j \in 1..Len(s) : i < j => s[i] < s[j]

Occurrences(s, x) == Cardinality({i \in 1..Len(s) : s[i] = x})

\* ------------------------------------- record store / process application
\* record_manager.get_notifications(start, stop) of a log holding the ids
\* 1..maxId: the ids after index start up to index stop (stop = None: to the
\* end), in increasing order.
record_manager_get_notifications(maxId, start, stop) ==
    IdsFromTo(start + 1, IF stop = Nil \/ stop > maxId THEN maxId ELSE stop)

\* process.get_recorded_position(upstream_name): the max notification id
\* with a tracking record.
get_recorded_position(trk) == IF trk = <<>> THEN 0 ELSE Max(Range(trk))

\* The same call on an application that answers None, not 0, when no
\* tracking record exists (the contract's result is "int|nil").
get_recorded_position_nil(trk) == IF trk = <<>> THEN Nil ELSE Max(Range(trk))

\* The unique constraint on (downstream, upstream, pipeline, notification_id)
\* that process_upstream_event's tracking insert runs into.
TrackingConflict_Never(trk, n) == FALSE

TrackingConflict(trk, n) == n \in Range(trk)

\* The application's policy: whether processing notification n of upstream
\* u produces a new, notifiable event.  Here the events of the first upstream
\* do and those of the others do not.
policy_notifiable(u, n) == u = UpstreamOrder[1]

\* What process_upstream_event returns: <<new_events, new_records>>, the
\* __notifiable__ flag of each new event and, for each new record, its place
\* among the notification ids the call assigns (1 for the first id after the
\* log's max; Nil for a record without an integer notification id).
policy(item) ==
    IF policy_notifiable(item[1], item[2]) THEN <<(<<TRUE>>), (<<1>>)>> ELSE <<(<<>>), (<<>>)>>

\* Every result of process_upstream_event with up to MaxNew new events: the
\* new records in any order, with or without integer ids.
NewRecords(k) ==
    {r \in [1..k -> {Nil} \cup (1..k)] :
        /\ \A i \in 1..k : \A j \in 1..k : (i # j /\ r[i] # Nil) => r[i] # r[j]
        /\ \A i \in 1..k : r[i] # Nil => r[i] <= Cardinality({j \in 1..k : r[j] # Nil})}

Outcomes ==
    UNION {{<<e, r>> : e \in [1..k -> BOOLEAN], r \in NewRecords(k)} : k \in 0..MaxNew}

\* ------------------------------------------------------------- the runner
\* The process names of the system this host belongs to, and "b follows a"
\* as system.upstream_names has it.
ProcessNames == Upstreams \cup {ProcessName} \cup Downstreams

HostSystem ==
    [n \in ProcessNames |->
        IF n = ProcessName THEN Upstreams
        ELSE IF n \in Downstreams THEN {ProcessName}
        ELSE {}]

\* system.downstream_names[name] of the system with upstream_names ups.
downstream_names(ups, name) == {d \in DOMAIN ups : name \in ups[d]}

\* self.ray_processes[(name, pipeline_id)] as RayRunner.start looks the
\* upstream and downstream hosts of a host up: the key of the host it finds.
ray_process_FirstPipeline(name, pipeline_id) == <<name, 0>>

ray_process(name, pipeline_id) == <<name, pipeline_id>>

\* The upstream_logs and downstream_processes RayRunner.start passes to
\* init() of the host with the given key.
init_args(ups, key) ==
    [upstream_logs |-> {ray_process(u, key[2]) : u \in ups[key[1]]},
     downstream_processes |->
         {ray_process(d, key[2]) : d \in downstream_names(ups, key[1])}]

\* The wiring after RayRunner.start of a system over the given pipelines.
started(ups, pids) ==
    [key \in (DOMAIN ups) \X pids |-> init_args(ups, key)]

\* self.pipeline_id of this host.
pipeline_id == CHOOSE p \in pipeline_ids : TRUE

\* ------------------------------------------------------------------- Init
\* The host after construction, next to upstreams that have written k[u]
\* notifications, all of them processed by an earlier run of the host.
HostInit(k) ==
    /\ tracking = [u \in Upstreams |-> IdsFromTo(1, k[u])]
    /\ upq = [u \in Upstreams |-> <<>>]
    /\ dropped = FALSE
    /\ is_inited = FALSE
    /\ heads = [u \in Upstreams |-> Nil]
    /\ has_been_prompted = FALSE
    /\ positions = [u \in Upstreams |-> Nil]
    /\ pullerPc = "wait"
    /\ current_heads = [u \in Upstreams |-> Nil]
    /\ todo = <<>>
    /\ batch = <<>>
    /\ upstream_event_queue = <<>>
    /\ epPc = "idle"
    /\ epItem = <<>>
    /\ ep_result = "none"
    /\ ownLog = 0
    /\ downstream_prompt_queue = <<>>
    /\ enq = [u \in Upstreams |-> <<>>]
    /\ popped = [u \in Upstreams |-> <<>>]
    /\ last_prompt = <<>>
    /\ dups = 0
    /\ has_been_stopped = FALSE
    /\ db_jobs_queue = <<>>
    /\ db_job = [c \in Callers |-> NoJob]
    /\ dbPc = "get"
    /\ rpcPc = "idle"
    /\ rpc_raises = FALSE
    /\ rpc_result = "none"
    /\ promoterPc = "get"
    /\ puller_result = "none"
    /\ app_calls = {}
    /\ calls = 0
    /\ requests = <<>>
    /\ new_events = <<>>
    /\ new_records = <<>>
    /\ max_notification_id = [c \in {"EventProcessor", "Promoter"} |-> Nil]
    /\ prompt_response_ids = [d \in Downstreams |-> "none"]
    /\ sent = [d \in Downstreams |-> <<>>]

\* The multiprocess runner after start(), with the operating system process
\* of ProcessName started and its run() not yet under way.
MultiprocessStarted ==
    /\ os_process = "created"
    /\ pubsub = <<>>
    /\ pubsub_channels = {}
    /\ prompt_handler = FALSE
    /\ process_closed = FALSE
    /\ caught = FALSE
    /\ os_processes = "started"
    /\ to_kill = <<>>
    /\ published = 0
    /\ kill_received = FALSE
    /\ after_kill = {}

\* The runner of the host's system, with one pipeline, after start().
RunnerStarted ==
    /\ pipeline_ids = {0}
    /\ upstream_names = HostSystem
    /\ ray_processes = ProcessNames \X {0}
    /\ wiring = started(HostSystem, {0})

Init ==
    /\ \E k \in [Upstreams -> 0..InitTracked] :
          /\ \A u \in Upstreams : k[u] <= MaxNotifOf(u)
          /\ HostInit(k)
          /\ log = k
    /\ RunnerStarted
    /\ MultiprocessStarted

\* ------------------------------------------------------- RayRunner.start
\* The systems the runner is started with: three processes, each following
\* any of the others.
RunnerNames == {"a", "b", "c"}
Systems == {ups \in [RunnerNames -> SUBSET RunnerNames] :
               \A n \in RunnerNames : n \notin ups[n]}

\* A runner constructed with a system and a tuple of pipeline ids.
InitRunner ==
    /\ HostInit([u \in Upstreams |-> 0])
    /\ log = [u \in Upstreams |-> 0]
    /\ upstream_names \in Systems
    /\ pipeline_ids \in (SUBSET (0..(MaxPipelines - 1))) \ {{}}
    /\ ray_processes = {}
    /\ wiring = <<>>
    /\ MultiprocessStarted

\* start(), first loop: one host per pipeline id and process name.
start_create ==
    /\ ray_processes = {}
    /\ ray_processes' = (DOMAIN upstream_names) \X pipeline_ids
    /\ UNCHANGED <<pipeline_ids, upstream_names, wiring>>
    /\ UNCHANGED <<upstreamVars, is_inited, promptVars, positions, pullerVars,
                   upstream_event_queue, epVars, downstream_prompt_queue, enq,
                   dups, hostVars, requests, emitVars, deliveryVars, osVars>>

\* start(), second loop: the upstream logs and the downstream hosts of the
\* host with the given key are looked up and passed to its init().
start_init(key) ==
    /\ key \in ray_processes
    /\ key \notin DOMAIN wiring
    /\ wiring' = [k \in (DOMAIN wiring) \cup {key} |->
                      IF k = key THEN init_args(upstream_names, key)
                      ELSE wiring[k]]
    /\ UNCHANGED <<pipeline_ids, upstream_names, ray_processes>>
    /\ UNCHANGED <<upstreamVars, is_inited, promptVars, positions, pullerVars,
                   upstream_event_queue, epVars, downstream_prompt_queue, enq,
                   dups, hostVars, requests, emitVars, deliveryVars, osVars>>

NextRunner ==
    \/ start_create
    \/ \E key \in ray_processes : start_init(key)

SpecRunner == InitRunner /\ [][NextRunner]_vars

\* --------------------------------------------------------------- DBWorker
\* do_db_job, up to db_job.wait(): a new RayDbJob is put on db_jobs_queue.
do_db_job_put(c) ==
    /\ db_jobs_queue' = Append(db_jobs_queue, c)
    /\ db_job' = [db_job EXCEPT ![c] = NewJob]

\* db_job.wait() returns once the job's done signal is set.
db_job_wait(j) == j.st = "done"

\* do_db_job after db_job.wait(): raise db_job.error if it is set, else
\* return db_job.result.
do_db_job_outcome_Shared(jobs, c) ==
    IF \E d \in Callers : jobs[d].st = "done" /\ jobs[d].error
    THEN "raised"
    ELSE "returned"

do_db_job_outcome(jobs, c) == IF jobs[c].error THEN "raised" ELSE "returned"

\* db_job.execute(): the function runs, its result or its error is stored on
\* the job and the done signal is set.
db_job_execute(j, raises) == [st |-> "done", error |-> raises]

\* The DBWorker takes the next item only at the head of its loop, when the
\* job before has been executed.
db_jobs_at_get_Reentrant(pc) == pc # "done"

db_jobs_at_get(pc) == pc = "get"

\* Where db_jobs is after db_job.execute(): an exception is printed and the
\* loop goes on.
db_jobs_after_execute_Propagate(raised) == IF raised THEN "done" ELSE "get"

db_jobs_after_execute(raised) == "get"

\* db_jobs_queue.get() returns an item: None or a set has_been_stopped end
\* the loop, else the job is executed.  (The test at the head of the loop
\* and the Empty branch end the loop in the same way; stop() has put None
\* on the queue, so this step is there whenever they are.)
db_jobs_get ==
    /\ db_jobs_at_get(dbPc)
    /\ db_jobs_queue # <<>>
    /\ db_jobs_queue' = Tail(db_jobs_queue)
    /\ LET item == Head(db_jobs_queue)
       IN  IF item = NoneJob \/ has_been_stopped
           THEN dbPc' = "done" /\ UNCHANGED db_job
           ELSE /\ dbPc' = "execute"
                /\ db_job' = [db_job EXCEPT ![item].st = "running"]
    /\ UNCHANGED <<requests, emitVars, deliveryVars, runnerVars, osVars,
                   upstreamVars, is_inited, promptVars, positions, pullerVars,
                   upstream_event_queue, epVars, downstream_prompt_queue, enq,
                   dups, has_been_stopped, rpcVars, promoterPc, puller_result,
                   app_calls>>

\* The DBWorker executes the job of call() or get_notifications(): the
\* application method, or _get_notifications, returns or raises.
db_jobs_execute ==
    /\ db_job["RPC"].st = "running"
    /\ rpcPc \in {"call", "get_notifications"}
    /\ db_job' = [db_job EXCEPT !["RPC"] = db_job_execute(@, rpc_raises)]
    /\ dbPc' = db_jobs_after_execute(rpc_raises)
    /\ app_calls' = app_calls \cup {<<"DBWorker", rpcPc>>}
    /\ UNCHANGED <<requests, emitVars, deliveryVars, runnerVars, osVars,
                   upstreamVars, is_inited, promptVars, positions, pullerVars,
                   upstream_event_queue, epVars, downstream_prompt_queue, enq,
                   dups, has_been_stopped, db_jobs_queue, rpcVars, promoterPc,
                   puller_result>>

\* The DBWorker executes the job of call() for a command that writes an
\* event: the application publishes a PromptToPull, with the new head or with
\* none, which enqueue_prompt puts on downstream_prompt_queue.
db_jobs_execute_command(with_head) ==
    /\ db_job["RPC"].st = "running"
    /\ rpcPc = "call"
    /\ ~rpc_raises
    /\ ownLog' = ownLog + 1
    /\ downstream_prompt_queue' =
           Append(downstream_prompt_queue,
                  PromptToPull(ProcessName, pipeline_id,
                               IF with_head THEN ownLog + 1 ELSE Nil))
    /\ db_job' = [db_job EXCEPT !["RPC"] = db_job_execute(@, FALSE)]
    /\ dbPc' = db_jobs_after_execute(FALSE)
    /\ app_calls' = app_calls \cup {<<"DBWorker", rpcPc>>}
    /\ UNCHANGED <<requests, emitVars, deliveryVars, runnerVars, osVars,
                   upstreamVars, is_inited, promptVars, positions, pullerVars,
                   upstream_event_queue, epPc, epItem, ep_result, tracking,
                   popped, enq, dups, has_been_stopped, db_jobs_queue, rpcVars,
                   promoterPc, puller_result>>

\* ------------------------------------------------------------------- init
\* _reset_positions: positions[u] = get_recorded_position(u) for every
\* upstream.
reset_positions_Zero == [u \in Upstreams |-> 0]

reset_positions == [u \in Upstreams |-> get_recorded_position(tracking[u])]

\* init(): the runner calls it once on every host and waits for all of them
\* before start() returns, so no command and no prompt precedes it.  The
\* process application is constructed by a DB job, follow() is called on it
\* from the actor thread, and the readers and positions are reset by DB
\* jobs.  No other thread has a job before is_inited, so the three jobs are
\* one job here.
init ==
    /\ ~is_inited
    /\ rpcPc = "idle"
    /\ rpcPc' = "init"
    /\ do_db_job_put("RPC")
    /\ app_calls' = app_calls \cup {<<"RPC", "follow">>}
    /\ UNCHANGED <<requests, emitVars, deliveryVars, runnerVars, osVars,
                   upstreamVars, is_inited, promptVars, positions, pullerVars,
                   upstream_event_queue, epVars, downstream_prompt_queue, enq,
                   dups, has_been_stopped, dbPc, rpc_raises, rpc_result, calls,
                   promoterPc, puller_result>>

\* The DBWorker executes init's jobs.
db_jobs_execute_init ==
    /\ db_job["RPC"].st = "running"
    /\ rpcPc = "init"
    /\ positions' = reset_positions
    /\ db_job' = [db_job EXCEPT !["RPC"] = db_job_execute(@, FALSE)]
    /\ dbPc' = db_jobs_after_execute(FALSE)
    /\ app_calls' = app_calls \cup {<<"DBWorker", "_reset_positions">>}
    /\ UNCHANGED <<requests, emitVars, deliveryVars, runnerVars, osVars,
                   upstreamVars, is_inited, promptVars, pullerVars,
                   upstream_event_queue, epVars, downstream_prompt_queue, enq,
                   dups, has_been_stopped, db_jobs_queue, rpcVars, promoterPc,
                   puller_result>>

\* The DBWorker executes init's jobs on an application whose
\* get_recorded_position answers None where there is no tracking record:
\* _reset_positions stores what it gets.
db_jobs_execute_init_nil ==
    /\ db_job["RPC"].st = "running"
    /\ rpcPc = "init"
    /\ positions' = [u \in Upstreams |-> get_recorded_position_nil(tracking[u])]
    /\ db_job' = [db_job EXCEPT !["RPC"] = db_job_execute(@, FALSE)]
    /\ dbPc' = db_jobs_after_execute(FALSE)
    /\ app_calls' = app_calls \cup {<<"DBWorker", "_reset_positions">>}
    /\ UNCHANGED <<requests, emitVars, deliveryVars, runnerVars, osVars,
                   upstreamVars, is_inited, promptVars, pullerVars,
                   upstream_event_queue, epVars, downstream_prompt_queue, enq,
                   dups, has_been_stopped, db_jobs_queue, rpcVars, promoterPc,
                   puller_result>>

\* reset_positions() returns and init() sets is_inited.
init_return ==
    /\ rpcPc = "init"
    /\ db_job_wait(db_job["RPC"])
    /\ is_inited' = TRUE
    /\ rpcPc' = "idle"
    /\ db_job' = [db_job EXCEPT !["RPC"] = NoJob]
    /\ UNCHANGED <<requests, emitVars, deliveryVars, runnerVars, osVars,
                   upstreamVars, promptVars, positions, pullerVars,
                   upstream_event_queue, epVars, downstream_prompt_queue, enq,
                   dups, has_been_stopped, db_jobs_queue, dbPc, rpc_raises,
                   rpc_result, calls, promoterPc, puller_result, app_calls>>

\* ------------------------------------------------- call, get_notifications
\* assert self.is_inited, "Please call .init() first"
call_asserts_Skip(inited) == TRUE

call_asserts(inited) == inited

\* call(application_method_name, ...): the method either returns or raises
\* (an error other than OperationalError, which the retry decorator does not
\* catch).
call(raises) ==
    /\ rpcPc = "idle"
    /\ calls < MaxCalls
    /\ calls' = calls + 1
    /\ IF call_asserts(is_inited)
       THEN /\ rpcPc' = "call"
            /\ rpc_raises' = raises
            /\ do_db_job_put("RPC")
            /\ UNCHANGED rpc_result
       ELSE /\ rpc_result' = "AssertionError"
            /\ UNCHANGED <<rpcPc, rpc_raises, db_jobs_queue, db_job>>
    /\ UNCHANGED <<requests, emitVars, deliveryVars, runnerVars, osVars,
                   upstreamVars, is_inited, promptVars, positions, pullerVars,
                   upstream_event_queue, epVars, downstream_prompt_queue, enq,
                   dups, has_been_stopped, dbPc, promoterPc, puller_result,
                   app_calls>>

\* get_notifications(first, last), called by a downstream host's Puller:
\* _get_notifications is handed to the DBWorker.
get_notifications_rpc(raises) ==
    /\ rpcPc = "idle"
    /\ is_inited
    /\ calls < MaxCalls
    /\ calls' = calls + 1
    /\ rpcPc' = "get_notifications"
    /\ rpc_raises' = raises
    /\ do_db_job_put("RPC")
    /\ UNCHANGED <<requests, emitVars, deliveryVars, runnerVars, osVars,
                   rpc_result, upstreamVars, is_inited, promptVars, positions, pullerVars,
                   upstream_event_queue, epVars, downstream_prompt_queue, enq,
                   dups, has_been_stopped, dbPc, promoterPc, puller_result,
                   app_calls>>

\* do_db_job returns to call() or get_notifications(), which return or
\* raise to the remote caller.
do_db_job_return ==
    /\ rpcPc \in {"call", "get_notifications"}
    /\ db_job_wait(db_job["RPC"])
    /\ rpc_result' = do_db_job_outcome(db_job, "RPC")
    /\ rpcPc' = "idle"
    /\ db_job' = [db_job EXCEPT !["RPC"] = NoJob]
    /\ UNCHANGED <<requests, emitVars, deliveryVars, runnerVars, osVars,
                   upstreamVars, is_inited, promptVars, positions, pullerVars,
                   upstream_event_queue, epVars, downstream_prompt_queue, enq,
                   dups, has_been_stopped, db_jobs_queue, dbPc, rpc_raises,
                   calls, promoterPc, puller_result, app_calls>>

\* ------------------------------------------------------------------- stop
\* stop(): has_been_stopped is set and None is put on the queues.  (The None
\* put on upstream_prompt_queue is read by no thread.)
stop ==
    /\ rpcPc = "idle"
    /\ is_inited
    /\ ~has_been_stopped
    /\ has_been_stopped' = TRUE
    /\ upstream_event_queue' = Append(upstream_event_queue, NoneEvent)
    /\ downstream_prompt_queue' = Append(downstream_prompt_queue, NonePrompt)
    /\ db_jobs_queue' = Append(db_jobs_queue, NoneJob)
    /\ UNCHANGED <<requests, emitVars, deliveryVars, runnerVars, osVars,
                   upstreamVars, is_inited, promptVars, positions, pullerVars,
                   epVars, enq, dups, db_job, dbPc, rpcVars, promoterPc,
                   puller_result, app_calls>>

\* ----------------------------------------------------------------- prompt
\* heads after prompt(RayPrompt(u, pipeline, h)).
prompt_heads_NoCompare(hs, u, h) == IF h # Nil THEN [hs EXCEPT ![u] = h] ELSE hs

prompt_heads(hs, u, h) ==
    IF h # Nil
    THEN IF hs[u] # Nil
         THEN IF h > hs[u] THEN [hs EXCEPT ![u] = h] ELSE hs
         ELSE [hs EXCEPT ![u] = h]
    ELSE hs

\* Whether prompt(RayPrompt(u, pipeline, h)) sets has_been_prompted.
prompt_sets_Always(hs, u, h) == TRUE

prompt_sets_OnlyWithoutHead(hs, u, h) == h = Nil

prompt_sets(hs, u, h) ==
    IF h # Nil
    THEN IF hs[u] # Nil THEN h > hs[u] ELSE TRUE
    ELSE TRUE

\* prompt(): the whole body runs under heads_lock.  Like every remote call
\* it runs on the actor thread, when that is not in another call (rpcPc).
prompt(u, h) ==
    /\ heads' = prompt_heads(heads, u, h)
    /\ has_been_prompted' = (has_been_prompted \/ prompt_sets(heads, u, h))

\* ----------------------------------------------------------- upstream hosts
\* A command on upstream u writes one event; the application publishes a
\* prompt, which enqueue_prompt puts on u's downstream_prompt_queue.
Produce(u) ==
    /\ is_inited
    /\ log[u] < MaxNotifOf(u)
    /\ log' = [log EXCEPT ![u] = log[u] + 1]
    /\ upq' = [upq EXCEPT ![u] = Append(upq[u], log[u] + 1)]
    /\ UNCHANGED <<requests, emitVars, deliveryVars, runnerVars, osVars,
                   dropped, is_inited, promptVars, positions, pullerVars,
                   upstream_event_queue, epVars, downstream_prompt_queue, enq, dups,
                   hostVars>>

\* u's Promoter pops the prompt and calls prompt() on this host.
Deliver(u) ==
    /\ rpcPc = "idle"
    /\ upq[u] # <<>>
    /\ prompt(u, Head(upq[u]))
    /\ upq' = [upq EXCEPT ![u] = Tail(upq[u])]
    /\ UNCHANGED <<requests, emitVars, deliveryVars, runnerVars, osVars,
                   log, dropped, is_inited, last_prompt, positions, pullerVars,
                   upstream_event_queue, epVars, downstream_prompt_queue, enq, dups,
                   hostVars>>

\* The prompt is lost between the two hosts.
Drop(u) ==
    /\ upq[u] # <<>>
    /\ upq' = [upq EXCEPT ![u] = Tail(upq[u])]
    /\ dropped' = TRUE
    /\ UNCHANGED <<requests, emitVars, deliveryVars, runnerVars, osVars,
                   log, is_inited, promptVars, positions, pullerVars,
                   upstream_event_queue, epVars, downstream_prompt_queue, enq, dups,
                   hostVars>>

\* A prompt without a head arrives (a sender that does not know its head
\* kicks the Puller).
Kick(u) ==
    /\ rpcPc = "idle"
    /\ is_inited
    /\ prompt(u, Nil)
    /\ UNCHANGED <<requests, emitVars, deliveryVars, runnerVars, osVars,
                   upstreamVars, is_inited, last_prompt, positions, pullerVars,
                   upstream_event_queue, epVars, downstream_prompt_queue, enq, dups,
                   hostVars>>

\* prompt() is a public RPC: a prompt may arrive again, late, out of order
\* or without a head.  The call is recorded in last_prompt.
ObservedPrompt(u, h) ==
    /\ rpcPc = "idle"
    /\ is_inited
    /\ h = Nil \/ (1 <= h /\ h <= log[u])
    /\ prompt(u, h)
    /\ last_prompt' = <<u, h, heads[u]>>
    /\ UNCHANGED <<requests, emitVars, deliveryVars, runnerVars, osVars,
                   upstreamVars, is_inited, positions, pullerVars,
                   upstream_event_queue, epVars, downstream_prompt_queue, enq, dups,
                   hostVars>>

\* A notification the Puller has already enqueued is delivered to the
\* EventProcessor a second time.
DuplicateDelivery(u, n) ==
    /\ dups < MaxDup
    /\ n \in Range(enq[u])
    /\ upstream_event_queue' = Append(upstream_event_queue, <<u, n>>)
    /\ dups' = dups + 1
    /\ UNCHANGED <<requests, emitVars, deliveryVars, runnerVars, osVars,
                   upstreamVars, is_inited, promptVars, positions, pullerVars,
                   epVars, downstream_prompt_queue, enq, hostVars>>

\* ----------------------------------------------------------------- Puller
\* _get_notifications(first, last), run by the upstream host on its log:
\* start = first - 1, stop = last.
get_notifications_SkipFirst(maxId, first, last) ==
    record_manager_get_notifications(maxId, first, last)

get_notifications_StopBefore(maxId, first, last) ==
    record_manager_get_notifications(maxId, first - 1,
                                     IF last = Nil THEN Nil ELSE last - 1)

get_notifications(maxId, first, last) ==
    record_manager_get_notifications(maxId, first - 1, last)

\* "Up to date": the snapshotted head is known and the position has reached it.
up_to_date(current_position, current_head) ==
    current_head # Nil /\ current_position >= current_head

\* last_notification_id of the request.
last_notification_id_Exclusive(first_notification_id, current_head) ==
    IF current_head # Nil THEN first_notification_id + RANGE_LIMIT ELSE Nil

last_notification_id(first_notification_id, current_head) ==
    IF current_head # Nil THEN first_notification_id + RANGE_LIMIT - 1 ELSE Nil

\* Whether the Puller sets has_been_prompted again after a fetch: the fetch
\* returned a full range, so there may be more.
rearm_Never(notifications) == FALSE

rearm(notifications) == Len(notifications) = RANGE_LIMIT

\* positions[u] after a fetch returned notifications.
new_position_Stale(current_position, notifications) == current_position

new_position_First(current_position, notifications) ==
    IF Len(notifications) > 0 THEN notifications[1] ELSE current_position

new_position(current_position, notifications) ==
    IF Len(notifications) > 0
    THEN LET position == notifications[Len(notifications)]
         IN  IF current_position = Nil \/ position > current_position
             THEN position
             ELSE current_position
    ELSE current_position

\* The Puller goes on to the next upstream of the pass; after the last one
\* it sleeps, tests has_been_stopped at the head of its loop and waits for
\* has_been_prompted again.
PullerAdvance ==
    /\ todo' = Tail(todo)
    /\ pullerPc' = IF Tail(todo) # <<>> THEN "fetch"
                   ELSE IF has_been_stopped THEN "done"
                   ELSE "wait"

\* has_been_prompted.wait() returns; under heads_lock the signal is cleared
\* and heads is snapshotted.
process_prompts_snapshot ==
    /\ pullerPc = "wait"
    /\ has_been_prompted
    /\ has_been_prompted' = FALSE
    /\ current_heads' = heads
    /\ todo' = UpstreamOrder
    /\ pullerPc' = "fetch"
    /\ UNCHANGED <<requests, emitVars, deliveryVars, runnerVars, osVars,
                   upstreamVars, is_inited, heads, last_prompt, positions, batch,
                   upstream_event_queue, epVars, downstream_prompt_queue, enq, dups,
                   hostVars>>

\* heads_lock is held by the Puller between the two steps below.  prompt()
\* holds it for the whole of its body, which is one step, so no state shows
\* prompt() as the holder.
heads_lock_locked == pullerPc = "snapshot"

\* process_prompts_snapshot as the steps it is made of.
\* has_been_prompted.wait() returns, heads_lock is acquired and the signal is
\* cleared.
process_prompts_clear ==
    /\ pullerPc = "wait"
    /\ has_been_prompted
    /\ ~heads_lock_locked
    /\ has_been_prompted' = FALSE
    /\ pullerPc' = "snapshot"
    /\ UNCHANGED <<requests, emitVars, deliveryVars, runnerVars, osVars,
                   upstreamVars, is_inited, heads, last_prompt, positions,
                   current_heads, todo, batch,
                   upstream_event_queue, epVars, downstream_prompt_queue, enq, dups,
                   hostVars>>

\* Still under heads_lock, heads is copied into current_heads; the lock is
\* released.
process_prompts_heads ==
    /\ pullerPc = "snapshot"
    /\ current_heads' = [u \in Upstreams |-> heads[u]]
    /\ todo' = UpstreamOrder
    /\ pullerPc' = "fetch"
    /\ UNCHANGED <<requests, emitVars, deliveryVars, runnerVars, osVars,
                   upstreamVars, is_inited, promptVars, positions, batch,
                   upstream_event_queue, epVars, downstream_prompt_queue, enq, dups,
                   hostVars>>

\* prompt() acquires heads_lock before it reads or writes anything: it waits
\* while the Puller holds the lock.
prompt_with_heads_lock(u, h) ==
    /\ ~heads_lock_locked
    /\ ObservedPrompt(u, h)

\* One iteration of the loop over the upstreams, up to the remote call: skip
\* the upstream, or request its notifications (get_notifications.remote).
process_prompts_fetch ==
    /\ pullerPc = "fetch"
    /\ positions[Head(todo)] # Nil
    /\ LET u == Head(todo)
           current_position == positions[u]
           first_notification_id == current_position + 1
           current_head == current_heads[u]
       IN  IF up_to_date(current_position, current_head)
           THEN /\ PullerAdvance
                /\ UNCHANGED requests
           ELSE /\ requests' = <<u, first_notification_id,
                                 last_notification_id(first_notification_id,
                                                      current_head)>>
                /\ pullerPc' = "ray_get"
                /\ UNCHANGED todo
    /\ UNCHANGED <<emitVars, deliveryVars, runnerVars, osVars,
                   upstreamVars, is_inited, promptVars, positions, current_heads,
                   batch, upstream_event_queue, epVars, downstream_prompt_queue,
                   enq, dups, hostVars>>

\* positions.get(upstream_name) is None: current_position + 1 raises
\* TypeError, which nothing in process_prompts catches, so the Puller thread
\* ends before any request is made.
process_prompts_type_error ==
    /\ pullerPc = "fetch"
    /\ positions[Head(todo)] = Nil
    /\ pullerPc' = "dead"
    /\ puller_result' = "TypeError"
    /\ UNCHANGED <<requests, emitVars, deliveryVars, runnerVars, osVars,
                   upstreamVars, is_inited, promptVars, positions, current_heads,
                   todo, batch, upstream_event_queue, epVars,
                   downstream_prompt_queue, enq, dups, has_been_stopped, dbVars,
                   rpcVars, promoterPc, app_calls>>

\* ray.get returns the notifications the upstream host found for the
\* request; the Puller sets has_been_prompted again after a full range and
\* updates positions.
process_prompts_ray_get ==
    /\ pullerPc = "ray_get"
    /\ LET u == requests[1]
           notifications == get_notifications(log[u], requests[2], requests[3])
       IN  /\ has_been_prompted' = (has_been_prompted \/ rearm(notifications))
           /\ positions' = [positions EXCEPT
                               ![u] = new_position(positions[u], notifications)]
           /\ IF notifications = <<>>
              THEN PullerAdvance /\ UNCHANGED batch
              ELSE /\ batch' = notifications
                   /\ pullerPc' = "enqueue"
                   /\ UNCHANGED todo
    /\ requests' = <<>>
    /\ UNCHANGED <<emitVars, deliveryVars, runnerVars, osVars,
                   upstreamVars, is_inited, heads, last_prompt, current_heads,
                   upstream_event_queue, epVars, downstream_prompt_queue, enq, dups,
                   hostVars>>

\* The remote get_notifications call fails with an operational error, which
\* ray.get raises in process_prompts: nothing there catches it, and
\* get_notifications has no retry, so the Puller thread ends.
process_prompts_fetch_error ==
    /\ pullerPc = "ray_get"
    /\ pullerPc' = "dead"
    /\ puller_result' = "operational"
    /\ requests' = <<>>
    /\ UNCHANGED <<emitVars, deliveryVars, runnerVars, osVars,
                   upstreamVars, is_inited, promptVars, positions, current_heads,
                   todo, batch, upstream_event_queue, epVars,
                   downstream_prompt_queue, enq, dups, has_been_stopped, dbVars,
                   rpcVars, promoterPc, app_calls>>

\* One iteration of the loop over the fetched notifications: the Puller
\* calls check_causal_dependencies and get_event_from_notification on the
\* process application and puts the event on upstream_event_queue.
process_prompts_enqueue ==
    /\ pullerPc = "enqueue"
    /\ LET u == Head(todo)
           n == Head(batch)
       IN  /\ upstream_event_queue' = Append(upstream_event_queue, <<u, n>>)
           /\ enq' = [enq EXCEPT ![u] = Append(enq[u], n)]
           /\ batch' = Tail(batch)
           /\ IF Tail(batch) = <<>>
              THEN PullerAdvance
              ELSE UNCHANGED <<pullerPc, todo>>
    /\ app_calls' = app_calls \cup {<<"Puller", "check_causal_dependencies">>,
                                    <<"Puller", "get_event_from_notification">>}
    /\ UNCHANGED <<requests, emitVars, deliveryVars, runnerVars, osVars,
                   upstreamVars, is_inited, promptVars, positions, current_heads,
                   epVars, downstream_prompt_queue, dups, has_been_stopped,
                   dbVars, rpcVars, promoterPc, puller_result>>

\* check_causal_dependencies raises: nothing in process_prompts catches it,
\* so the Puller thread ends.
process_prompts_causal_error ==
    /\ pullerPc = "enqueue"
    /\ pullerPc' = "dead"
    /\ puller_result' = "causal"
    /\ app_calls' = app_calls \cup {<<"Puller", "check_causal_dependencies">>}
    /\ UNCHANGED <<requests, emitVars, deliveryVars, runnerVars, osVars,
                   upstreamVars, is_inited, promptVars, positions, current_heads,
                   todo, batch, upstream_event_queue, epVars,
                   downstream_prompt_queue, enq, dups, has_been_stopped, dbVars,
                   rpcVars, promoterPc>>

\* --------------------------------------------------------- EventProcessor
\* Where process_events is after its except clause has run.  The clause
\* calls self.reset_processing(), which RayProcess does not define (only the
\* unused class __RayProcess does): the call raises AttributeError out of
\* process_events and the thread ends.
except_clause == "dead"

\* Whether put() on downstream_prompt_queue has to wait: the queue is
\* constructed without a maxsize.
put_blocks_MaxSize1(q) == Len(q) >= 1

put_blocks(q) == FALSE

\* upstream_event_queue.get() returns an item: None or a set
\* has_been_stopped end the loop, else process_upstream_event is handed to
\* the DBWorker.
process_events_get ==
    /\ epPc = "idle"
    /\ upstream_event_queue # <<>>
    /\ upstream_event_queue' = Tail(upstream_event_queue)
    /\ LET item == Head(upstream_event_queue)
       IN  IF item = NoneEvent \/ has_been_stopped
           THEN /\ epPc' = "done"
                /\ UNCHANGED <<epItem, popped, db_jobs_queue, db_job>>
           ELSE /\ epItem' = item
                /\ popped' = [popped EXCEPT ![item[1]] = Append(popped[item[1]], item[2])]
                /\ epPc' = "processing"
                /\ do_db_job_put("EventProcessor")
    /\ UNCHANGED <<requests, emitVars, deliveryVars, runnerVars, osVars,
                   upstreamVars, is_inited, promptVars, positions, pullerVars,
                   ep_result, tracking, ownLog, downstream_prompt_queue, enq, dups,
                   has_been_stopped, dbPc, rpcVars, promoterPc, puller_result,
                   app_calls>>

\* The DBWorker executes process_upstream_event, which commits: the tracking
\* record is inserted and the policy's new events are appended in one
\* transaction; out is what the call returns.
process_upstream_event_commit(out) ==
    /\ epPc = "processing"
    /\ db_job["EventProcessor"].st = "running"
    /\ LET u == epItem[1]
           n == epItem[2]
           ids == {i \in 1..Len(out[2]) : out[2][i] # Nil}
       IN  /\ ~TrackingConflict(tracking[u], n)
           /\ tracking' = [tracking EXCEPT ![u] = Append(tracking[u], n)]
           /\ new_events' = out[1]
           /\ new_records' = [i \in 1..Len(out[2]) |->
                                 IF i \in ids THEN ownLog + out[2][i] ELSE Nil]
           /\ ownLog' = ownLog + Cardinality(ids)
    /\ ep_result' = "ok"
    /\ db_job' = [db_job EXCEPT !["EventProcessor"] = db_job_execute(@, FALSE)]
    /\ dbPc' = db_jobs_after_execute(FALSE)
    /\ app_calls' = app_calls \cup {<<"DBWorker", "process_upstream_event">>}
    /\ UNCHANGED <<requests, deliveryVars, runnerVars, osVars,
                   upstreamVars, is_inited, promptVars, positions, pullerVars,
                   upstream_event_queue, epPc, epItem, popped,
                   downstream_prompt_queue, enq, dups, has_been_stopped,
                   db_jobs_queue, rpcVars, promoterPc, puller_result>>

\* The DBWorker executes process_upstream_event, which raises, either the
\* uniqueness conflict of the tracking insert or any other exception: the
\* transaction aborts and the error is stored on the job.
process_upstream_event_raise ==
    /\ epPc = "processing"
    /\ db_job["EventProcessor"].st = "running"
    /\ ep_result' = IF TrackingConflict(tracking[epItem[1]], epItem[2])
                    THEN "conflict"
                    ELSE "error"
    /\ db_job' = [db_job EXCEPT !["EventProcessor"] = db_job_execute(@, TRUE)]
    /\ dbPc' = db_jobs_after_execute(TRUE)
    /\ app_calls' = app_calls \cup {<<"DBWorker", "process_upstream_event">>}
    /\ UNCHANGED <<requests, emitVars, deliveryVars, runnerVars, osVars,
                   upstreamVars, is_inited, promptVars, positions, pullerVars,
                   upstream_event_queue, epPc, epItem, tracking, ownLog, popped,
                   downstream_prompt_queue, enq, dups, has_been_stopped,
                   db_jobs_queue, rpcVars, promoterPc, puller_result>>

\* notifiable_events of process_events.
notifiable_events_All(events) == events

notifiable_events(events) == SelectSeq(events, LAMBDA e : e)

\* notifications of process_events: the ids of the new records that have an
\* integer notification id, in the order of new_records.
notifications_of(records) == SelectSeq(records, LAMBDA r : r # Nil)

\* head_notification_id when there are notifications.
head_notification_id(notifications) == notifications[Len(notifications)]

\* do_db_job returns the new events and records.  With a notifiable event, a
\* prompt carrying the id of the last notification is put on
\* downstream_prompt_queue; if no new record has an integer id, the head is
\* asked of the record manager first (get_max_notification_id).
process_events_else ==
    /\ epPc = "processing"
    /\ db_job_wait(db_job["EventProcessor"])
    /\ do_db_job_outcome(db_job, "EventProcessor") = "returned"
    /\ IF Len(notifiable_events(new_events)) > 0
       THEN IF Len(notifications_of(new_records)) > 0
            THEN /\ ~put_blocks(downstream_prompt_queue)
                 /\ downstream_prompt_queue' =
                        Append(downstream_prompt_queue,
                               RayPrompt(ProcessName, pipeline_id,
                                   head_notification_id(notifications_of(new_records))))
                 /\ epPc' = "idle"
                 /\ db_job' = [db_job EXCEPT !["EventProcessor"] = NoJob]
                 /\ UNCHANGED db_jobs_queue
            ELSE /\ do_db_job_put("EventProcessor")
                 /\ epPc' = "get_max_notification_id"
                 /\ UNCHANGED downstream_prompt_queue
       ELSE /\ epPc' = "idle"
            /\ db_job' = [db_job EXCEPT !["EventProcessor"] = NoJob]
            /\ UNCHANGED <<downstream_prompt_queue, db_jobs_queue>>
    /\ UNCHANGED <<requests, emitVars, deliveryVars, runnerVars, osVars,
                   upstreamVars, is_inited, promptVars, positions, pullerVars,
                   upstream_event_queue, epItem, ep_result, tracking, ownLog,
                   popped, enq, dups, has_been_stopped, dbPc,
                   rpcVars, promoterPc, puller_result, app_calls>>

\* The DBWorker executes record_manager.get_max_notification_id for thread c.
db_jobs_execute_get_max_notification_id(c) ==
    /\ \/ c = "EventProcessor" /\ epPc = "get_max_notification_id"
       \/ c = "Promoter" /\ promoterPc = "get_max_notification_id"
    /\ db_job[c].st = "running"
    /\ max_notification_id' = [max_notification_id EXCEPT ![c] = ownLog]
    /\ db_job' = [db_job EXCEPT ![c] = db_job_execute(@, FALSE)]
    /\ dbPc' = db_jobs_after_execute(FALSE)
    /\ app_calls' = app_calls \cup {<<"DBWorker", "get_max_notification_id">>}
    /\ UNCHANGED <<requests, emitVars, prompt_response_ids, sent, runnerVars, osVars,
                   upstreamVars, is_inited, promptVars, positions, pullerVars,
                   upstream_event_queue, epVars, downstream_prompt_queue, enq,
                   dups, has_been_stopped, db_jobs_queue, rpcVars, promoterPc,
                   puller_result>>

\* get_max_notification_id returns: the EventProcessor puts the prompt with
\* that head on downstream_prompt_queue.
process_events_put ==
    /\ epPc = "get_max_notification_id"
    /\ db_job_wait(db_job["EventProcessor"])
    /\ ~put_blocks(downstream_prompt_queue)
    /\ downstream_prompt_queue' =
           Append(downstream_prompt_queue,
                  RayPrompt(ProcessName, pipeline_id,
                            max_notification_id["EventProcessor"]))
    /\ epPc' = "idle"
    /\ db_job' = [db_job EXCEPT !["EventProcessor"] = NoJob]
    /\ UNCHANGED <<requests, emitVars, deliveryVars, runnerVars, osVars,
                   upstreamVars, is_inited, promptVars, positions, pullerVars,
                   upstream_event_queue, epItem, ep_result, tracking, ownLog,
                   popped, enq, dups, has_been_stopped, db_jobs_queue, dbPc,
                   rpcVars, promoterPc, puller_result, app_calls>>

\* do_db_job raises the job's error: the one except clause of
\* process_events runs, for the uniqueness conflict as for any exception.
process_events_except ==
    /\ epPc = "processing"
    /\ db_job_wait(db_job["EventProcessor"])
    /\ do_db_job_outcome(db_job, "EventProcessor") = "raised"
    /\ epPc' = except_clause
    /\ db_job' = [db_job EXCEPT !["EventProcessor"] = NoJob]
    /\ UNCHANGED <<requests, emitVars, deliveryVars, runnerVars, osVars,
                   upstreamVars, is_inited, promptVars, positions, pullerVars,
                   upstream_event_queue, epItem, ep_result, tracking, ownLog,
                   popped, downstream_prompt_queue, enq, dups, has_been_stopped,
                   db_jobs_queue, dbPc, rpcVars, promoterPc, puller_result,
                   app_calls>>

\* --------------------------------------------------------------- Promoter
\* The prompt push_prompts sends for an item of downstream_prompt_queue.
prompt_of(item) ==
    IF item[1] = "PromptToPull"
    THEN RayPrompt(ProcessName, pipeline_id, item[4])
    ELSE item

\* Whether push_prompts asks get_max_notification_id for the head of an item.
needs_head(item) == item[1] = "PromptToPull" /\ (item[4] = Nil \/ item[4] = 0)

\* The downstream hosts the loop over downstream_processes calls prompt() on:
\* it leaves after the first call when has_been_stopped is set.
prompted_FirstOnly(stopped) == {DownstreamOrder[1]}

prompted(stopped) == IF stopped THEN {DownstreamOrder[1]} ELSE Downstreams

\* prompt.remote(ray_prompt) on the downstream hosts ds.
push(ray_prompt, ds) ==
    /\ sent' = [d \in Downstreams |->
                   IF d \in ds THEN Append(sent[d], ray_prompt) ELSE sent[d]]
    /\ prompt_response_ids' =
           [d \in Downstreams |-> IF d \in ds THEN "pending" ELSE "none"]

\* Whether ray.get(prompt_response_ids) has all its answers.
ray_get_ready_Any(ids) == \E d \in Downstreams : ids[d] \in {"returned", "raised"}

ray_get_ready(ids) == \A d \in Downstreams : ids[d] # "pending"

\* Where push_prompts is after ray.get(prompt_response_ids): an error of a
\* downstream's prompt() is raised by ray.get, which nothing in push_prompts
\* catches, so the thread ends; else the loop tests has_been_stopped.
after_ray_get(ids, stopped) ==
    IF \E d \in Downstreams : ids[d] = "raised" THEN "dead"
    ELSE IF stopped THEN "done"
    ELSE "get"

\* downstream_prompt_queue.get() returns an item: None or a set
\* has_been_stopped end the loop; a PromptToPull without a head has its head
\* asked of the record manager; any other prompt is sent to every downstream
\* host.
push_prompts ==
    /\ promoterPc = "get"
    /\ downstream_prompt_queue # <<>>
    /\ downstream_prompt_queue' = Tail(downstream_prompt_queue)
    /\ LET item == Head(downstream_prompt_queue)
       IN  IF item = NonePrompt \/ has_been_stopped
           THEN /\ promoterPc' = "done"
                /\ UNCHANGED <<prompt_response_ids, sent, db_jobs_queue, db_job>>
           ELSE IF needs_head(item)
           THEN /\ do_db_job_put("Promoter")
                /\ promoterPc' = "get_max_notification_id"
                /\ UNCHANGED <<prompt_response_ids, sent>>
           ELSE /\ push(prompt_of(item), prompted(has_been_stopped))
                /\ promoterPc' = "ray_get"
                /\ UNCHANGED <<db_jobs_queue, db_job>>
    /\ UNCHANGED <<requests, emitVars, max_notification_id, runnerVars, osVars,
                   upstreamVars, is_inited, promptVars, positions, pullerVars,
                   upstream_event_queue, epVars, enq, dups, has_been_stopped,
                   dbPc, rpcVars, puller_result, app_calls>>

\* get_max_notification_id returns: the prompt with that head is sent.
push_prompts_send ==
    /\ promoterPc = "get_max_notification_id"
    /\ db_job_wait(db_job["Promoter"])
    /\ push(RayPrompt(ProcessName, pipeline_id, max_notification_id["Promoter"]),
            prompted(has_been_stopped))
    /\ promoterPc' = "ray_get"
    /\ db_job' = [db_job EXCEPT !["Promoter"] = NoJob]
    /\ UNCHANGED <<requests, emitVars, max_notification_id, runnerVars, osVars,
                   upstreamVars, is_inited, promptVars, positions, pullerVars,
                   upstream_event_queue, epVars, downstream_prompt_queue, enq,
                   dups, has_been_stopped, db_jobs_queue, dbPc, rpcVars,
                   puller_result, app_calls>>

\* Downstream host d answers the Promoter's prompt() call: it returns, or it
\* raises.
prompt_answers(d, answer) ==
    /\ prompt_response_ids[d] = "pending"
    /\ prompt_response_ids' = [prompt_response_ids EXCEPT ![d] = answer]
    /\ UNCHANGED <<requests, emitVars, max_notification_id, sent, runnerVars, osVars,
                   upstreamVars, is_inited, promptVars, positions, pullerVars,
                   upstream_event_queue, epVars, downstream_prompt_queue, enq,
                   dups, hostVars>>

\* ray.get(prompt_response_ids) has its answers.
push_prompts_ray_get ==
    /\ promoterPc = "ray_get"
    /\ ray_get_ready(prompt_response_ids)
    /\ promoterPc' = after_ray_get(prompt_response_ids, has_been_stopped)
    /\ UNCHANGED <<requests, emitVars, deliveryVars, runnerVars, osVars,
                   upstreamVars, is_inited, promptVars, positions, pullerVars,
                   upstream_event_queue, epVars, downstream_prompt_queue, enq,
                   dups, has_been_stopped, dbVars, rpcVars, puller_result,
                   app_calls>>

\* A downstream host never answers: the Promoter stays in ray.get.
push_prompts_blocked ==
    /\ promoterPc = "ray_get"
    /\ ~ray_get_ready(prompt_response_ids)
    /\ promoterPc' = "blocked"
    /\ UNCHANGED <<requests, emitVars, deliveryVars, runnerVars, osVars,
                   upstreamVars, is_inited, promptVars, positions, pullerVars,
                   upstream_event_queue, epVars, downstream_prompt_queue, enq,
                   dups, has_been_stopped, dbVars, rpcVars, puller_result,
                   app_calls>>

\* ---------------------------------------------------------- specifications
\* The host as its upstreams see it: init, the prompts, the Puller, the
\* EventProcessor and the DBWorker.  The Promoter only takes prompts off
\* downstream_prompt_queue, which no other thread reads; its steps are in
\* SpecStop and SpecPromoter.
Next ==
    \/ init
    \/ db_jobs_get
    \/ db_jobs_execute_init
    \/ init_return
    \/ \E u \in Upstreams : Produce(u)
    \/ \E u \in Upstreams : Deliver(u)
    \/ \E u \in Upstreams : Drop(u)
    \/ \E u \in Upstreams : Kick(u)
    \/ process_prompts_snapshot
    \/ process_prompts_fetch
    \/ process_prompts_ray_get
    \/ process_prompts_fetch_error
    \/ process_prompts_enqueue
    \/ process_prompts_causal_error
    \/ process_events_get
    \/ process_upstream_event_commit(policy(epItem))
    \/ process_upstream_event_raise
    \/ process_events_else
    \/ process_events_except

Spec == Init /\ [][Next]_vars

\* The host when notifications can also be delivered twice (every prompt is
\* delivered, in order; the first upstream alone writes).
NextDup ==
    \/ init
    \/ db_jobs_get
    \/ db_jobs_execute_init
    \/ init_return
    \/ Produce(UpstreamOrder[1])
    \/ Deliver(UpstreamOrder[1])
    \/ process_prompts_snapshot
    \/ process_prompts_fetch
    \/ process_prompts_ray_get
    \/ process_prompts_enqueue
    \/ process_prompts_causal_error
    \/ process_events_get
    \/ process_upstream_event_commit(policy(epItem))
    \/ process_upstream_event_raise
    \/ process_events_else
    \/ process_events_except
    \/ \E n \in 1..MaxNotif : DuplicateDelivery(UpstreamOrder[1], n)

SpecDup == Init /\ [][NextDup]_vars

\* The prompt intake alone: prompts arrive in any order, the Puller consumes
\* the signal, and each prompt() call is recorded in last_prompt.
NextPrompt ==
    \/ init
    \/ db_jobs_get
    \/ db_jobs_execute_init
    \/ init_return
    \/ \E u \in Upstreams : Produce(u)
    \/ \E u \in Upstreams : \E h \in {Nil} \cup (1..MaxNotif) : ObservedPrompt(u, h)
    \/ process_prompts_snapshot
    \/ process_prompts_fetch
    \/ process_prompts_ray_get
    \/ process_prompts_enqueue

SpecPrompt == Init /\ [][NextPrompt]_vars

\* The host with an application whose policy may return any new events and
\* records.  The second upstream alone writes, every prompt is delivered and
\* no call raises.
NextEmit ==
    \/ init
    \/ db_jobs_get
    \/ db_jobs_execute_init
    \/ init_return
    \/ Produce(UpstreamOrder[2])
    \/ Deliver(UpstreamOrder[2])
    \/ process_prompts_snapshot
    \/ process_prompts_fetch
    \/ process_prompts_ray_get
    \/ process_prompts_enqueue
    \/ process_events_get
    \/ \E out \in Outcomes : process_upstream_event_commit(out)
    \/ process_events_else
    \/ db_jobs_execute_get_max_notification_id("EventProcessor")
    \/ process_events_put

SpecEmit == Init /\ [][NextEmit]_vars

\* The Promoter with its downstream hosts, which answer prompt() or raise.
\* Commands write events, for which the application publishes prompts with
\* and without a head; the first upstream writes, every prompt is delivered
\* and no call on this host raises; the runner stops the host at any time.
NextPromoter ==
    \/ init
    \/ db_jobs_get
    \/ db_jobs_execute_init
    \/ init_return
    \/ call(FALSE)
    \/ \E with_head \in BOOLEAN : db_jobs_execute_command(with_head)
    \/ do_db_job_return
    \/ stop
    \/ push_prompts
    \/ db_jobs_execute_get_max_notification_id("Promoter")
    \/ push_prompts_send
    \/ \E d \in Downstreams : \E answer \in {"returned", "raised"} :
          prompt_answers(d, answer)
    \/ push_prompts_ray_get

SpecPromoter == Init /\ [][NextPromoter]_vars

\* The host with heads_lock in view: the Puller's critical section is two
\* steps, and prompts with any head, raising heads or not, arrive between
\* any two steps the lock allows.
NextLock ==
    \/ init
    \/ db_jobs_get
    \/ db_jobs_execute_init
    \/ init_return
    \/ \E u \in Upstreams : Produce(u)
    \/ \E u \in Upstreams : \E h \in {Nil} \cup (1..MaxNotif) :
          prompt_with_heads_lock(u, h)
    \/ process_prompts_clear
    \/ process_prompts_heads
    \/ process_prompts_fetch
    \/ process_prompts_ray_get
    \/ process_prompts_enqueue

SpecLock == Init /\ [][NextLock]_vars

\* The host on an application whose get_recorded_position answers None for
\* an upstream without tracking records.  Every prompt is delivered, prompts
\* without a head arrive as well, and no call raises.
NextNil ==
    \/ init
    \/ db_jobs_get
    \/ db_jobs_execute_init_nil
    \/ init_return
    \/ \E u \in Upstreams : Produce(u)
    \/ \E u \in Upstreams : Deliver(u)
    \/ \E u \in Upstreams : Kick(u)
    \/ process_prompts_snapshot
    \/ process_prompts_fetch
    \/ process_prompts_type_error
    \/ process_prompts_ray_get
    \/ process_prompts_enqueue

SpecNil == Init /\ [][NextNil]_vars

\* ------------------------------------------- the multiprocess runner
\* (application/multiprocess.py)  The runner starts one operating system
\* process per process application; they talk through the channels of a
\* message broker, one channel per process name.  Nothing of the RayProcess
\* host takes part.
rayVars == <<upstreamVars, is_inited, promptVars, positions, pullerVars,
             upstream_event_queue, epVars, downstream_prompt_queue, enq, dups,
             hostVars, requests, emitVars, deliveryVars, runnerVars>>

\* redis.publish(channel, data): the item reaches self.pubsub when it is
\* subscribed to the channel.
publish(items, channels, item) ==
    IF item[2] \in channels THEN Append(items, item) ELSE items

\* The confirmations of subscribing to, or unsubscribing from, the channels
\* of names, in the order of names.
confirmations(type, names, channels) ==
    LET kept == SelectSeq(names, LAMBDA n : n \in channels)
    IN  [i \in 1..Len(kept) |-> Confirmation(type, kept[i])]

\* What run() has done since a KILL was read.
done_after_kill(what) == IF kill_received THEN after_kill \cup {what} ELSE after_kill

\* Where run() is after an exception leaves loop_on_prompts: the except
\* clause prints it and the enclosing while True calls loop_on_prompts again.
run_except == "loop_on_prompts"

\* Where run() is after loop_on_prompts returns: the same while True calls
\* it again.
run_while_True == "loop_on_prompts"

\* run(), up to its loop: the process application is constructed, pubsub is
\* subscribed to the channel of every upstream name, the application follows
\* the upstream logs and broadcast_prompt is subscribed to its prompts.
os_process_run ==
    /\ os_process = "created"
    /\ pubsub_channels' = Upstreams
    /\ pubsub' = pubsub \o confirmations("subscribe", UpstreamOrder, Upstreams)
    /\ prompt_handler' = TRUE
    /\ os_process' = "loop_on_prompts"
    /\ UNCHANGED <<process_closed, caught, os_processes, to_kill, published,
                   kill_received, after_kill, rayVars>>

\* self.process.run() at the head of loop_on_prompts ("run once, in case
\* prompts were missed"): it returns, or it raises into run()'s except
\* clause.
loop_on_prompts(raises) ==
    /\ os_process = "loop_on_prompts"
    /\ after_kill' = done_after_kill("process.run")
    /\ os_process' = IF raises THEN run_except ELSE "get_message"
    /\ caught' = (caught \/ raises)
    /\ UNCHANGED <<pubsub, pubsub_channels, prompt_handler, process_closed,
                   os_processes, to_kill, published, kill_received, rayVars>>

\* pubsub.get_message(timeout=poll_interval) returns None: nothing came in
\* time, and self.process.run() is called.
get_message_None ==
    /\ os_process = "get_message"
    /\ pubsub = <<>>
    /\ after_kill' = done_after_kill("get_message")
    /\ os_process' = "process_run"
    /\ UNCHANGED <<pubsub, pubsub_channels, prompt_handler, process_closed, caught,
                   os_processes, to_kill, published, kill_received, rayVars>>

\* pubsub.get_message returns an item.  KILL: pubsub.unsubscribe(),
\* self.process.close() and break, which ends loop_on_prompts.  Any other
\* message is a prompt: self.process.run(prompt).  The confirmations are
\* passed over.
get_message ==
    /\ os_process = "get_message"
    /\ pubsub # <<>>
    /\ after_kill' = done_after_kill("get_message")
    /\ LET item == Head(pubsub)
       IN  IF item[1] = "message" /\ item[3] = "KILL"
           THEN /\ pubsub' = Tail(pubsub) \o
                       confirmations("unsubscribe", UpstreamOrder, pubsub_channels)
                /\ pubsub_channels' = {}
                /\ process_closed' = TRUE
                /\ kill_received' = TRUE
                /\ os_process' = run_while_True
           ELSE /\ pubsub' = Tail(pubsub)
                /\ os_process' = IF item[1] = "message" THEN "process_run"
                                 ELSE "get_message"
                /\ UNCHANGED <<pubsub_channels, process_closed, kill_received>>
    /\ UNCHANGED <<prompt_handler, caught, os_processes, to_kill, published, rayVars>>

\* self.process.run(...) inside the loop of loop_on_prompts: it returns, or
\* it raises out of loop_on_prompts into run()'s except clause.
loop_on_prompts_process_run(raises) ==
    /\ os_process = "process_run"
    /\ after_kill' = done_after_kill("process.run")
    /\ os_process' = IF raises THEN run_except ELSE "get_message"
    /\ caught' = (caught \/ raises)
    /\ UNCHANGED <<pubsub, pubsub_channels, prompt_handler, process_closed,
                   os_processes, to_kill, published, kill_received, rayVars>>

\* The operating system process of upstream u publishes a prompt on its
\* channel (broadcast_prompt), or prompt_about does.
broadcast_prompt(u) ==
    /\ published < MaxPublished
    /\ os_processes # "closed"
    /\ published' = published + 1
    /\ pubsub' = publish(pubsub, pubsub_channels, PromptMessage(u))
    /\ UNCHANGED <<os_process, pubsub_channels, prompt_handler, process_closed,
                   caught, os_processes, to_kill, kill_received, after_kill, rayVars>>

\* Multiprocess.close(), first loop: KILL is published on the channel of
\* every operating system process, one after the other.
close ==
    /\ os_processes = "started"
    /\ os_processes' = "publish"
    /\ to_kill' = OsProcessOrder
    /\ UNCHANGED <<os_process, pubsub, pubsub_channels, prompt_handler,
                   process_closed, caught, published, kill_received, after_kill,
                   rayVars>>

close_publish ==
    /\ os_processes = "publish"
    /\ pubsub' = publish(pubsub, pubsub_channels, KillMessage(Head(to_kill)))
    /\ to_kill' = Tail(to_kill)
    /\ os_processes' = IF Tail(to_kill) = <<>> THEN "join" ELSE "publish"
    /\ UNCHANGED <<os_process, pubsub_channels, prompt_handler, process_closed,
                   caught, published, kill_received, after_kill, rayVars>>

\* close(), second loop: os_process.join(timeout=1) returns, the process
\* ended or not.
close_join ==
    /\ os_processes = "join"
    /\ os_processes' = "is_alive"
    /\ UNCHANGED <<os_process, pubsub, pubsub_channels, prompt_handler,
                   process_closed, caught, to_kill, published, kill_received,
                   after_kill, rayVars>>

\* close(), third loop: "if os_process.is_alive" tests the bound method,
\* which is true of every process, so terminate() is called; then
\* self.os_processes = None.
close_terminate ==
    /\ os_processes = "is_alive"
    /\ os_process' = "terminated"
    /\ os_processes' = "closed"
    /\ UNCHANGED <<pubsub, pubsub_channels, prompt_handler, process_closed, caught,
                   to_kill, published, kill_received, after_kill, rayVars>>

NextOs ==
    \/ os_process_run
    \/ \E raises \in BOOLEAN : loop_on_prompts(raises)
    \/ get_message_None
    \/ get_message
    \/ \E raises \in BOOLEAN : loop_on_prompts_process_run(raises)
    \/ \E u \in Upstreams : broadcast_prompt(u)
    \/ close
    \/ close_publish
    \/ close_join
    \/ close_terminate

SpecOs == Init /\ [][NextOs]_vars

\* A host that joins late: its first upstream has a backlog, nothing of which
\* the host has processed.  Prompts with the upstream's head or without a
\* head arrive at any time; the Puller alone runs.
InitRange ==
    /\ HostInit([u \in Upstreams |-> 0])
    /\ log \in {l \in [Upstreams -> 0..MaxBacklog] :
                   \A u \in Upstreams : u # UpstreamOrder[1] => l[u] = 0}
    /\ RunnerStarted
    /\ MultiprocessStarted

NextRange ==
    \/ init
    \/ db_jobs_get
    \/ db_jobs_execute_init
    \/ init_return
    \/ \E h \in {Nil, log[UpstreamOrder[1]]} : ObservedPrompt(UpstreamOrder[1], h)
    \/ process_prompts_snapshot
    \/ process_prompts_fetch
    \/ process_prompts_ray_get
    \/ process_prompts_enqueue

SpecRange == InitRange /\ [][NextRange]_vars

\* The host with its remote callers: commands (call) and downstream hosts
\* (get_notifications) hand jobs to the DBWorker while the EventProcessor
\* does, and the runner stops the host.  The first upstream alone writes,
\* every prompt is delivered and the Puller's calls succeed.
NextDb ==
    \/ init
    \/ db_jobs_get
    \/ db_jobs_execute_init
    \/ init_return
    \/ \E raises \in BOOLEAN : call(raises)
    \/ \E raises \in BOOLEAN : get_notifications_rpc(raises)
    \/ db_jobs_execute
    \/ do_db_job_return
    \/ stop
    \/ Produce(UpstreamOrder[1])
    \/ Deliver(UpstreamOrder[1])
    \/ process_prompts_snapshot
    \/ process_prompts_fetch
    \/ process_prompts_ray_get
    \/ process_prompts_enqueue
    \/ process_events_get
    \/ process_upstream_event_commit(policy(epItem))
    \/ process_upstream_event_raise
    \/ process_events_else
    \/ process_events_except

SpecDb == Init /\ [][NextDb]_vars

\* The host with a downstream host that may never return from prompt(),
\* stopped by the runner at any moment.  The first upstream alone writes,
\* every prompt is delivered and no call of the workers raises.
NextStop ==
    \/ init
    \/ db_jobs_get
    \/ db_jobs_execute_init
    \/ init_return
    \/ stop
    \/ Produce(UpstreamOrder[1])
    \/ Deliver(UpstreamOrder[1])
    \/ process_prompts_snapshot
    \/ process_prompts_fetch
    \/ process_prompts_ray_get
    \/ process_prompts_enqueue
    \/ process_events_get
    \/ process_upstream_event_commit(policy(epItem))
    \/ process_events_else
    \/ push_prompts
    \/ \E d \in Downstreams : prompt_answers(d, "returned")
    \/ push_prompts_ray_get
    \/ push_prompts_blocked

SpecStop == Init /\ [][NextStop]_vars

\* ------------------------------------------------------------------ claims
\* The Puller can take no further step: it has ended, or it waits for a
\* signal that is not set.
PullerIdle == pullerPc = "dead" \/ (pullerPc = "wait" /\ ~has_been_prompted)

\* The EventProcessor can take no further step: it has ended, or it waits
\* on an empty queue.
EventProcessorIdle == epPc = "dead" \/ (epPc = "idle" /\ upstream_event_queue = <<>>)

\* Nothing is left to happen unless an upstream writes or prompts again.
Stable ==
    /\ is_inited
    /\ \A u \in Upstreams : upq[u] = <<>>
    /\ PullerIdle
    /\ EventProcessorIdle

\* The host has caught up with every upstream.
Complete ==
    \A u \in Upstreams :
        /\ positions[u] = log[u]
        /\ Range(tracking[u]) = 1..log[u]

\* No worker thread has ended.
NoFault == pullerPc # "dead" /\ epPc # "dead"

\* C1: at-most-once processing.  For every upstream u and notification id n
\* the tracking table of this host holds at most one record (u, n), also
\* when notifications are delivered twice.
C1_AtMostOnce ==
    \A u \in Upstreams : \A n \in Range(tracking[u]) : Occurrences(tracking[u], n) <= 1

\* A second delivery was handed to process_upstream_event and hit the
\* unique constraint; its notification has exactly one record.
C1_Witness ==
    /\ ep_result = "conflict"
    /\ Occurrences(tracking[epItem[1]], epItem[2]) = 1

\* C2: tracking-prefix invariant.  For every upstream u the ids with a
\* tracking record are exactly 1..k for some k >= 0, a prefix of u's
\* notifications, also after process_upstream_event or the causal-dependency
\* check has failed.
C2_TrackingPrefix ==
    \A u \in Upstreams :
        /\ Range(tracking[u]) = 1..Cardinality(Range(tracking[u]))
        /\ Cardinality(Range(tracking[u])) <= log[u]

\* Both failures have happened and some upstream is tracked up to a
\* non-empty, strict prefix of its notifications.
C2_Witness ==
    /\ pullerPc = "dead"
    /\ ep_result = "error"
    /\ \E u \in Upstreams : 1 <= Len(tracking[u]) /\ Len(tracking[u]) < log[u]

\* C3: ordering per upstream.  For every upstream u the ids the Puller
\* enqueues, the ids the EventProcessor receives and the ids committed are
\* each strictly increasing, and while process_upstream_event runs for an
\* id, every smaller id received from u has already been committed.
C3_OrderingPerUpstream ==
    \A u \in Upstreams :
        /\ IsStrictlyIncreasing(enq[u])
        /\ IsStrictlyIncreasing(popped[u])
        /\ IsStrictlyIncreasing(tracking[u])
        /\ (epPc = "processing" /\ epItem[1] = u) =>
               \A n1 \in Range(popped[u]) : n1 < epItem[2] => n1 \in Range(tracking[u])

\* process_upstream_event runs for the second notification received from
\* an upstream.
C3_Witness ==
    /\ epPc = "processing"
    /\ Len(popped[epItem[1]]) >= 2
    /\ Len(enq[epItem[1]]) >= 2

\* C4: eventual completeness, as a statement about the states in which
\* nothing is left to happen.  When no prompt was lost, the upstreams'
\* prompts have all been delivered and the workers have nothing left to do,
\* positions[u] is u's max notification id and every notification of u has
\* a tracking record.
C4_EventualCompleteness == (Stable /\ ~dropped) => Complete

\* C5: prompts are advisory.  When a prompt was lost and no worker thread
\* has ended, the host still ends caught up with every upstream.
C5_PromptsAdvisory == (Stable /\ dropped /\ NoFault) => Complete

\* C6: duplicate delivery is a silent no-op.  When the EventProcessor comes
\* back from process_upstream_event for a notification that already had a
\* tracking record, nothing is written, no prompt is queued, nothing is
\* reset, and the EventProcessor is back at its queue.
C6_DuplicateNoOp ==
    [][(epPc = "processing" /\ epPc' # "processing" /\ ep_result = "conflict")
        => /\ tracking' = tracking
           /\ ownLog' = ownLog
           /\ downstream_prompt_queue' = downstream_prompt_queue
           /\ upstream_event_queue' = upstream_event_queue
           /\ positions' = positions
           /\ epPc' = "idle"]_vars

\* C7: failure policy.  When process_upstream_event has raised anything but
\* the uniqueness conflict, the event queue is emptied, positions[u] becomes
\* the recorded position of every upstream u, and the EventProcessor is
\* back at its queue.
C7_FailurePolicy ==
    [][(epPc = "processing" /\ epPc' # "processing" /\ ep_result = "error")
        => /\ upstream_event_queue' = <<>>
           /\ positions' = [u \in Upstreams |-> get_recorded_position(tracking'[u])]
           /\ epPc' = "idle"]_vars

\* C8: reset safety.  A run in which process_upstream_event failed once
\* (no prompt lost, the Puller alive) ends in the state of the run without
\* the failure: caught up with every upstream.
C8_ResetSafety ==
    (Stable /\ ~dropped /\ pullerPc # "dead" /\ ep_result = "error") => Complete

\* C9: monotone heads.  No step decreases heads[u] or removes it, whatever
\* prompts arrive (late, repeated, without a head).
C9_MonotoneHeads ==
    [][\A u \in Upstreams :
          heads[u] # Nil => (heads'[u] # Nil /\ heads'[u] >= heads[u])]_vars

\* A prompt with a head below heads[sender] has arrived, and heads[sender]
\* is what it was.
C9_Witness ==
    /\ last_prompt # <<>>
    /\ last_prompt[2] # Nil
    /\ last_prompt[3] # Nil
    /\ last_prompt[2] < last_prompt[3]
    /\ heads[last_prompt[1]] = last_prompt[3]

\* C10 as stated: when the Puller is about to read positions[u], it is at
\* most the max notification id of u with a tracking record.
C10_PositionsAtMostTracked ==
    pullerPc = "fetch" =>
        positions[Head(todo)] <= get_recorded_position(tracking[Head(todo)])

\* C10 amended: when the Puller is about to read positions[u], it is at
\* least the max notification id of u with a tracking record, and at most
\* u's max notification id.
C10_PositionsAtLeastTracked ==
    pullerPc = "fetch" =>
        /\ positions[Head(todo)] >= get_recorded_position(tracking[Head(todo)])
        /\ positions[Head(todo)] <= log[Head(todo)]

\* The Puller is about to read a position that is ahead of the tracking
\* table.
C10_Witness ==
    /\ pullerPc = "fetch"
    /\ positions[Head(todo)] > get_recorded_position(tracking[Head(todo)])

\* C11: serial database access.  At most one DB job is executing at any
\* time, whatever the EventProcessor, the remote callers and the runner do,
\* and a job executes only while the DBWorker is in db_job.execute().
C11_SerialDbAccess ==
    /\ Cardinality({c \in Callers : db_job[c].st = "running"}) <= 1
    /\ (\E c \in Callers : db_job[c].st = "running") => dbPc = "execute"

\* process_upstream_event is executing while the job of a call() or a
\* get_notifications() waits in db_jobs_queue.
C11_Witness ==
    /\ db_job["EventProcessor"].st = "running"
    /\ db_job["RPC"].st = "queued"
    /\ rpcPc \in {"call", "get_notifications"}

\* C12: the process application is accessed only on the DBWorker.  Every
\* call the host has made on the application was made by the DBWorker
\* thread.
C12_ApplicationOnDBWorker == \A a \in app_calls : a[1] = "DBWorker"

\* C13: back-pressure does not block commits.  While the Promoter is held
\* by a downstream host that does not return from prompt(), the
\* EventProcessor coming back from process_upstream_event can always put its
\* prompt and go on; and when nothing is left to happen, every notification
\* of every upstream has been committed.
C13_BackPressure ==
    promoterPc = "blocked" =>
        /\ (/\ epPc = "processing"
            /\ db_job_wait(db_job["EventProcessor"])
            /\ do_db_job_outcome(db_job, "EventProcessor") = "returned")
               => ENABLED process_events_else
        /\ (Stable /\ ~has_been_stopped) => Complete

\* The Promoter is held, prompts wait in its queue, and the EventProcessor
\* comes back from a commit with another prompt to put.
C13_Witness ==
    /\ promoterPc = "blocked"
    /\ downstream_prompt_queue # <<>>
    /\ epPc = "processing"
    /\ db_job_wait(db_job["EventProcessor"])
    /\ policy_notifiable(epItem[1], epItem[2])

\* The four worker loops have ended.
WorkersTerminated ==
    /\ dbPc = "done"
    /\ pullerPc \in {"done", "dead"}
    /\ epPc \in {"done", "dead"}
    /\ promoterPc = "done"

\* A step of one of the four worker threads.
WorkerStep ==
    \/ db_jobs_get
    \/ db_jobs_execute_init
    \/ db_jobs_execute
    \/ process_upstream_event_commit(policy(epItem))
    \/ process_upstream_event_raise
    \/ process_prompts_snapshot
    \/ process_prompts_fetch
    \/ process_prompts_ray_get
    \/ process_prompts_enqueue
    \/ process_events_get
    \/ process_events_else
    \/ process_events_except
    \/ process_events_put
    \/ \E c \in {"EventProcessor", "Promoter"} :
          db_jobs_execute_get_max_notification_id(c)
    \/ push_prompts
    \/ push_prompts_send
    \/ push_prompts_ray_get

\* C14: shutdown.  After stop(), once no worker thread can take another
\* step (and the Promoter is not held by a downstream host), the DBWorker,
\* the Puller, the EventProcessor and the Promoter have all ended.
C14_Shutdown ==
    (/\ has_been_stopped
     /\ promoterPc # "blocked"
     /\ promoterPc = "ray_get" => ray_get_ready(prompt_response_ids)
     /\ ~ENABLED WorkerStep)
        => WorkersTerminated

\* C15: Stopped is terminal and rejects work.  A call() or get_notifications()
\* made after stop() does not stay in do_db_job for ever: once the DBWorker
\* has ended, its job has been executed.
C15_StoppedRejects ==
    (has_been_stopped /\ dbPc = "done" /\ rpcPc \in {"call", "get_notifications"})
        => db_job_wait(db_job["RPC"])

\* C16: call() on a host that is not yet inited raises to the caller, puts
\* no job on db_jobs_queue and makes no call on the application.
C16_CallBeforeInit ==
    [][(~is_inited /\ calls' = calls + 1)
        => /\ rpc_result' = "AssertionError"
           /\ UNCHANGED <<rpcPc, db_jobs_queue, db_job, app_calls>>]_vars

\* A call() made before init() has been refused.
C16_Witness == ~is_inited /\ rpc_result = "AssertionError" /\ calls >= 1

\* C17: the DBWorker survives job errors.  No execution of a job ends the
\* DBWorker loop, whether the job's function returns or raises, and the loop
\* ends only when has_been_stopped is set.
C17_DBWorkerSurvives ==
    [][/\ dbPc = "execute" => dbPc' # "done"
       /\ (dbPc # "done" /\ dbPc' = "done") => has_been_stopped]_vars

\* The function of a call's job has raised, and the DBWorker is executing
\* the job of a later call.
C17_Witness ==
    /\ rpc_result = "raised"
    /\ db_job["RPC"].st = "running"
    /\ ~has_been_stopped

\* C18: do_db_job comes back only when the DBWorker has run the job, and
\* then with the outcome of the job's own function: call() and
\* get_notifications() raise exactly when their function raised, and the
\* EventProcessor takes its except clause exactly when process_upstream_event
\* raised.
C18_DoDbJob ==
    [][/\ (rpcPc \in {"call", "get_notifications"} /\ rpcPc' = "idle")
            => /\ db_job["RPC"].st = "done"
               /\ rpc_result' = IF rpc_raises THEN "raised" ELSE "returned"
       /\ (epPc = "processing" /\ epPc' # "processing")
            => /\ db_job["EventProcessor"].st = "done"
               /\ (epPc' = "idle") = (ep_result = "ok")]_vars

\* Two executed jobs wait for their callers, one with an error and one
\* with a result.
C18_Witness ==
    /\ db_job["EventProcessor"].st = "done"
    /\ db_job["RPC"].st = "done"
    /\ rpcPc \in {"call", "get_notifications"}
    /\ db_job["EventProcessor"].error # db_job["RPC"].error

\* C19: causal-dependency stall.  When check_causal_dependencies raises, the
\* error is caught and the Puller and the EventProcessor go on running.
C19_CausalStall ==
    [][(pullerPc = "enqueue" /\ puller_result' = "causal")
        => /\ pullerPc' \in {"wait", "fetch", "enqueue"}
           /\ epPc' # "dead"]_vars

\* C20: when the get_notifications call to an upstream fails for good, the
\* Puller abandons that upstream for this pass only: it goes on to the next
\* upstream of the pass, or waits for the next prompt.
C20_FetchErrorSkipsUpstream ==
    [][(pullerPc = "ray_get" /\ puller_result' = "operational")
        => /\ todo' = Tail(todo)
           /\ pullerPc' = IF Tail(todo) = <<>> THEN "wait" ELSE "fetch"]_vars

\* C22: pipeline isolation.  Every upstream log and every downstream host
\* that the runner passes to init() of the host (name, p) belongs to a host of
\* the same pipeline p that the runner created; so the prompts the host gets
\* and the get_notifications requests it makes stay within pipeline p.
C22_PipelineIsolation ==
    \A key \in DOMAIN wiring :
        \A k \in wiring[key].upstream_logs \cup wiring[key].downstream_processes :
            /\ k[2] = key[2]
            /\ k \in ray_processes

\* Every host of a system with a follower relation and two pipelines is wired.
C22_Witness ==
    /\ ray_processes # {}
    /\ DOMAIN wiring = ray_processes
    /\ Cardinality(pipeline_ids) >= 2
    /\ \E key \in DOMAIN wiring :
          /\ key[2] # 0
          /\ wiring[key].upstream_logs # {}
          /\ wiring[key].downstream_processes # {}

\* C23: the Puller's fetch range.  Visiting upstream u with position c and
\* snapshotted head h, the Puller makes no request when h is known and
\* c >= h, the one request get_notifications(c+1, c+10) when h is known and
\* c < h, and the one request get_notifications(c+1, nil) when h is unknown.
C23_FetchRange ==
    [][(pullerPc = "fetch" /\ <<pullerPc, todo>>' # <<pullerPc, todo>>)
        => LET u == Head(todo)
               c == positions[u]
               h == current_heads[u]
           IN  IF h # Nil /\ c >= h
               THEN requests' = <<>> /\ pullerPc' # "ray_get" /\ todo' = Tail(todo)
               ELSE /\ pullerPc' = "ray_get"
                    /\ todo' = todo
                    /\ requests' = <<u, c + 1, IF h # Nil THEN c + 10 ELSE Nil>>]_vars

\* A bounded request that does not start at the first notification is in
\* flight.
C23_Witness ==
    /\ pullerPc = "ray_get"
    /\ requests[2] > 1
    /\ requests[3] = requests[2] + 9

\* C24: get_notifications(first, last) of a host whose ids are contiguous
\* from 1 returns, in increasing order, exactly the ids from first to last
\* (to the end when last is nil); so the answer to a bounded request of the
\* Puller has at most RANGE_LIMIT notifications, and it starts with
\* positions[u] + 1 whenever the upstream has that notification.
C24_GetNotificationsRange ==
    [][(pullerPc = "ray_get" /\ pullerPc' \notin {"ray_get", "dead"})
        => LET u == requests[1]
               first == requests[2]
               last == requests[3]
               notifications == IF pullerPc' = "enqueue" THEN batch' ELSE <<>>
           IN  /\ IsStrictlyIncreasing(notifications)
               /\ Range(notifications) =
                      {n \in 1..log[u] : n >= first /\ (last = Nil \/ n <= last)}
               /\ last # Nil => Len(notifications) <= RANGE_LIMIT
               /\ positions[u] \notin Range(notifications)
               /\ log[u] > positions[u] =>
                      /\ notifications # <<>>
                      /\ notifications[1] = positions[u] + 1]_vars

\* A bounded request was answered with a full range that is neither the
\* start nor the end of the upstream's log.
C24_Witness ==
    /\ pullerPc = "enqueue"
    /\ Len(batch) = RANGE_LIMIT
    /\ batch[1] > 1
    /\ batch[RANGE_LIMIT] < log[Head(todo)]

\* C25: range-limit re-arm.  After a fetch that returned RANGE_LIMIT
\* notifications the Puller makes another pass without a new prompt: when it
\* waits with has_been_prompted clear, its position for every upstream with a
\* known head has reached that head.
C25_RangeLimitRearm ==
    (is_inited /\ pullerPc = "wait" /\ ~has_been_prompted)
        => \A u \in Upstreams : heads[u] # Nil => positions[u] >= heads[u]

\* The Puller has caught up with a head more than two full ranges away.
C25_Witness ==
    /\ pullerPc = "wait"
    /\ ~has_been_prompted
    /\ \E u \in Upstreams :
          /\ heads[u] # Nil
          /\ heads[u] > 2 * RANGE_LIMIT
          /\ positions[u] >= heads[u]
          /\ Len(enq[u]) = positions[u]

\* C26: the Puller never decreases positions[u].  A non-empty answer moves
\* positions[u] to the id of its last notification if that id is greater, an
\* empty answer leaves it alone, and no other step of the Puller changes
\* positions.
C26_PositionsNeverDecrease ==
    [][/\ is_inited => \A u \in Upstreams : positions'[u] >= positions[u]
       /\ (pullerPc = "ray_get" /\ pullerPc' \notin {"ray_get", "dead"})
             => LET u == requests[1]
                    got == IF pullerPc' = "enqueue" THEN batch' ELSE <<>>
                IN  /\ \A v \in Upstreams \ {u} : positions'[v] = positions[v]
                    /\ positions'[u] =
                           IF got # <<>> /\ got[Len(got)] > positions[u]
                           THEN got[Len(got)]
                           ELSE positions[u]]_vars

\* The Puller has moved a position over an answer of several notifications,
\* and has had an empty answer afterwards.
C26_Witness ==
    /\ pullerPc = "wait"
    /\ \E u \in Upstreams :
          /\ positions[u] > RANGE_LIMIT
          /\ positions[u] = log[u]
          /\ heads[u] # Nil
    /\ \E u \in Upstreams : positions[u] = 0 /\ is_inited

\* C27: the effect of prompt(sender, head).  With a head, heads[sender]
\* becomes the larger of the old entry and the head, and has_been_prompted is
\* set only if the entry was absent or has grown; without a head,
\* has_been_prompted is set and heads is left alone.  The entries of the
\* other senders and positions do not change.
C27_PromptEffect ==
    [][last_prompt' # last_prompt
        => LET u == last_prompt'[1]
               h == last_prompt'[2]
               old == heads[u]
           IN  /\ old = last_prompt'[3]
               /\ heads'[u] = IF h = Nil THEN old
                              ELSE IF old = Nil \/ h > old THEN h
                              ELSE old
               /\ \A v \in Upstreams \ {u} : heads'[v] = heads[v]
               /\ positions' = positions
               /\ has_been_prompted' =
                      (has_been_prompted \/ h = Nil \/ old = Nil \/ h > old)]_vars

\* A prompt with the head the host already has was the last to arrive, and
\* the signal is not set.
C27_Witness ==
    /\ last_prompt # <<>>
    /\ last_prompt[2] # Nil
    /\ last_prompt[2] = last_prompt[3]
    /\ heads[last_prompt[1]] = last_prompt[2]
    /\ ~has_been_prompted

\* C28: after a successful process_upstream_event the EventProcessor puts
\* one prompt (own name, own pipeline id, a head) on downstream_prompt_queue
\* if a new event is notifiable, at once or after get_max_notification_id,
\* and nothing if none is; no other step of it puts anything there.
C28_OnePromptIffNotifiable ==
    [][LET notifiable == \E i \in 1..Len(new_events) : new_events[i]
           q == downstream_prompt_queue
           one_prompt ==
               /\ Len(q') = Len(q) + 1
               /\ SubSeq(q', 1, Len(q)) = q
               /\ q'[Len(q')] = RayPrompt(ProcessName, pipeline_id, q'[Len(q')][4])
       IN  /\ (epPc = "processing" /\ epPc' = "idle")
                 => IF notifiable THEN one_prompt ELSE q' = q
           /\ (epPc = "processing" /\ epPc' = "get_max_notification_id")
                 => notifiable /\ q' = q
           /\ (epPc = "get_max_notification_id" /\ epPc' = "idle") => one_prompt
           /\ epPc' = epPc => q' = q]_vars

\* A successful call returned two events of which the second alone is
\* notifiable: one prompt is queued.
C28_Witness ==
    /\ epPc = "idle"
    /\ ep_result = "ok"
    /\ new_events = <<FALSE, TRUE>>
    /\ ownLog = 2
    /\ Len(downstream_prompt_queue) = 1

\* C29: the head of a prompt the EventProcessor emits is the greatest
\* notification id among the new records with an integer id, in whatever
\* order process_upstream_event returned them, and the record store's max
\* notification id when no new record has one.
C29_HeadIsMax ==
    [][LET q == downstream_prompt_queue
           ids == {new_records[i] : i \in 1..Len(new_records)} \ {Nil}
       IN  /\ (epPc = "processing" /\ epPc' = "idle" /\ Len(q') > Len(q))
                 => ids # {} /\ q'[Len(q')][4] = Max(ids)
           /\ (epPc = "get_max_notification_id" /\ epPc' = "idle")
                 => ids = {} /\ q'[Len(q')][4] = ownLog]_vars

\* C21: error isolation between hosts.  When a downstream host raises while
\* handling prompt(), the Promoter of the host that sent the prompt goes on:
\* unless the host has been stopped it takes the next item of
\* downstream_prompt_queue.
C21_PromoterSurvives ==
    [][(/\ promoterPc = "ray_get"
        /\ promoterPc' # "ray_get"
        /\ \E d \in Downstreams : prompt_response_ids[d] = "raised")
        => promoterPc' = IF has_been_stopped THEN "done" ELSE "get"]_vars

\* C30: Promoter delivery.  For an item taken off downstream_prompt_queue of
\* a running host, prompt() is called once on every downstream host, with
\* the item's prompt or, for a pull item without a head, with the head that
\* get_max_notification_id returned; and no item is taken while one of the
\* calls has not answered.
C30_PromoterDelivery ==
    [][LET item == Head(downstream_prompt_queue)
           once(ray_prompt) ==
               /\ \A d \in Downstreams : sent'[d] = Append(sent[d], ray_prompt)
               /\ \A d \in Downstreams : prompt_response_ids'[d] = "pending"
       IN  /\ (promoterPc = "get" /\ promoterPc' = "ray_get")
                 => /\ item[1] = "PromptToPull" => item[4] # Nil
                    /\ once(RayPrompt(ProcessName, pipeline_id, item[4]))
           /\ (promoterPc = "get" /\ promoterPc' = "get_max_notification_id")
                 => /\ item = PromptToPull(ProcessName, pipeline_id, Nil)
                    /\ sent' = sent
           /\ (/\ promoterPc = "get_max_notification_id"
               /\ promoterPc' = "ray_get"
               /\ ~has_been_stopped)
                 => once(RayPrompt(ProcessName, pipeline_id,
                                   max_notification_id["Promoter"]))
           /\ (promoterPc = "get" /\ promoterPc' \notin {"get", "done"})
                 => downstream_prompt_queue' = Tail(downstream_prompt_queue)
           /\ Len(downstream_prompt_queue') < Len(downstream_prompt_queue)
                 => \A d \in Downstreams : prompt_response_ids[d] # "pending"
           /\ sent' # sent => (promoterPc # "ray_get" /\ promoterPc' = "ray_get")]_vars

\* Two pull items, one of them without a head, have been sent to both
\* downstream hosts, which have answered, and the Promoter is back at the
\* queue.
C30_Witness ==
    /\ promoterPc = "get"
    /\ ~has_been_stopped
    /\ max_notification_id["Promoter"] # Nil
    /\ \A d \in Downstreams :
          /\ Len(sent[d]) = 2
          /\ sent[d][1][4] # sent[d][2][4]
          /\ prompt_response_ids[d] = "returned"

\* C31: no lost wake-up.  Whenever heads_lock is free and has_been_prompted
\* is clear, the Puller's snapshot holds every head as it is now: a prompt
\* that raised heads[u] is in the snapshot or has left the signal set.  And
\* a set signal is never cleared by anything but the Puller's next pass,
\* which snapshots heads under the same lock.
C31_NoLostWakeup ==
    /\ (~heads_lock_locked /\ ~has_been_prompted)
          => \A u \in Upstreams : current_heads[u] = heads[u]
    /\ (has_been_prompted /\ pullerPc = "wait") => ENABLED process_prompts_clear
    /\ heads_lock_locked => ENABLED process_prompts_heads

\* A prompt raised a head while the Puller was in the middle of a pass, after
\* its snapshot: the snapshot is behind and the signal is set.
C31_Witness ==
    /\ pullerPc \in {"fetch", "ray_get", "enqueue"}
    /\ has_been_prompted
    /\ last_prompt # <<>>
    /\ LET u == last_prompt[1]
       IN  /\ last_prompt[2] # Nil
           /\ last_prompt[3] # Nil
           /\ last_prompt[2] > last_prompt[3]
           /\ heads[u] = last_prompt[2]
           /\ current_heads[u] = last_prompt[3]

\* C32: first pass with no tracking records.  When the Puller comes to an
\* upstream whose position is None, its step requests that upstream's
\* notifications from id 1 and the Puller goes on running.
C32_FirstPassFromNil ==
    [][(/\ pullerPc = "fetch"
        /\ positions[Head(todo)] = Nil
        /\ <<pullerPc, todo, requests>>' # <<pullerPc, todo, requests>>)
          => /\ pullerPc' = "ray_get"
             /\ requests' # <<>>
             /\ requests'[1] = Head(todo)
             /\ requests'[2] = 1]_vars

\* C33: multiprocess runner shutdown.  Once an operating system process has
\* read a KILL message, its pubsub is unsubscribed, its process application
\* is closed and its run() has ended: it has not called process.run() and
\* has not waited for a message since.
C33_KillEndsRun ==
    kill_received
       => /\ pubsub_channels = {}
          /\ process_closed
          /\ os_process \notin {"loop_on_prompts", "get_message", "process_run"}
          /\ after_kill = {}

====
